---- MODULE Spec2Model ----
(***************************************************************************)
(* A model of go-pep440-version: the PEP 440 version parser, the ordering  *)
(* key and Compare (version.go, stored as src/go.mod lines 18..388) and    *)
(* the constraint parser and evaluator (src/specifier.go).                 *)
(*                                                                         *)
(* Text.  A Go string is modelled as a sequence of lexemes: a maximal run  *)
(* of digits ("0", "12"), a maximal run of letters ("rc", "POST") or one   *)
(* punctuation character (".", "-", "_", "!", "+", "*", ",", " ", the      *)
(* operator characters).  Splitting, joining, prefix and suffix tests and  *)
(* the regular expressions of the source are computed on these sequences.  *)
(* Letter runs are taken from a fixed vocabulary (Words); none of them is  *)
(* the concatenation of two segment words of the grammar.  Digit runs are  *)
(* the decimal numerals of Dec plus the zero-padded numerals of ZeroPadded.*)
(***************************************************************************)
EXTENDS Integers, Sequences, FiniteSets, TLC

VARIABLES
    phase,      \* which step of the running scenario comes next
    a, b, c,    \* results of Parse: [err, v]
    cmp,        \* results of Version.Compare on the parsed versions
    expr,       \* the constraint expression handed to NewConstraints
    css, cur,   \* NewConstraints: the groups built so far, the group in progress
    built,      \* result of NewConstraints: [err, cs]
    cand,       \* the candidate Version handed to Constraints.Check
    gi, ci,     \* loop positions: group and clause (NewConstraints, Check)
    result      \* outcome of Constraints.Check: "none", "true", "false", "panic"

vars == <<phase, a, b, c, cmp, expr, css, cur, built, cand, gi, ci, result>>

orderVars == <<a, b, c, cmp>>
checkVars == <<expr, css, cur, built, cand, gi, ci, result>>

-----------------------------------------------------------------------------
(* Lexemes *)

Dec == <<"0", "1", "2", "3", "4", "5", "6", "7", "8", "9">>

ZeroPadded == <<"00", "01", "02">>

IsDigits(x) ==
    \/ \E i \in DOMAIN Dec : Dec[i] = x
    \/ \E i \in DOMAIN ZeroPadded : ZeroPadded[i] = x

\* part.NewBigInt on a digit run: its decimal value.
NumVal(x) ==
    IF \E i \in DOMAIN Dec : Dec[i] = x
    THEN (CHOOSE i \in DOMAIN Dec : Dec[i] = x) - 1
    ELSE (CHOOSE i \in DOMAIN ZeroPadded : ZeroPadded[i] = x) - 1

\* fmt's %s of a part.BigInt: the decimal numeral.
NumStr(n) == Dec[n + 1]

\* strings.ToLower on a letter run of the vocabulary.
ToLower(w) ==
    CASE w = "V" -> "v"
      [] w = "A" -> "a"
      [] w = "RC" -> "rc"
      [] w = "POST" -> "post"
      [] w = "DEV" -> "dev"
      [] w = "ABC" -> "abc"
      [] OTHER -> w

\* The letter runs of the model, lower case, in byte order (strings.Compare).
SortedWords ==
    <<"a", "abc", "alpha", "b", "beta", "c", "dev", "post", "pre", "preview",
      "r", "rc", "rev", "v", "x">>

IsLetters(x) == \E i \in DOMAIN SortedWords : SortedWords[i] = ToLower(x)

WordRank(w) == CHOOSE i \in DOMAIN SortedWords : SortedWords[i] = w

Sgn(n) == IF n < 0 THEN -1 ELSE IF n > 0 THEN 1 ELSE 0

\* Go evaluates an argument or a local variable once.  Only(S) is the
\* element of a one-element set; Let(F, x) is F(x) with x evaluated once,
\* Let2(F, x, y) is F(x, y) with x and y evaluated once.
Only(S) == CHOOSE x \in S : TRUE
Let(F(_), x) == Only({F(v) : v \in {x}})
Let2(F(_, _), x, y) == Only({F(v, w) : v \in {x}, w \in {y}})

\* s[i], or "$" past the end of s.
At(s, i) == IF i >= 1 /\ i <= Len(s) THEN s[i] ELSE "$"

IsSep(x) == x \in {"-", "_", "."}

\* strings.HasSuffix(s, ".*") and strings.TrimSuffix(s, ".*")
HasWildcardSuffix(s) ==
    Len(s) >= 2 /\ s[Len(s) - 1] = "." /\ s[Len(s)] = "*"

TrimWildcardSuffix(s) ==
    IF HasWildcardSuffix(s) THEN SubSeq(s, 1, Len(s) - 2) ELSE s

\* strings.Split(s, sep) for a one-lexeme separator: the pieces, in order.
RECURSIVE SplitOn(_, _)
SplitOn(s, sep) ==
    IF \A i \in DOMAIN s : s[i] # sep
    THEN <<s>>
    ELSE LET k == CHOOSE i \in DOMAIN s :
                      s[i] = sep /\ \A j \in 1..(i - 1) : s[j] # sep
         IN <<SubSeq(s, 1, k - 1)>> \o SplitOn(SubSeq(s, k + 1, Len(s)), sep)

\* strings.Join(elems, ".")
RECURSIVE JoinDots(_)
JoinDots(elems) ==
    IF Len(elems) = 0 THEN <<>>
    ELSE IF Len(elems) = 1 THEN elems[1]
    ELSE elems[1] \o <<".">> \o JoinDots(Tail(elems))

-----------------------------------------------------------------------------
(* The ordered-value primitive of github.com/rstudio/go-version/pkg/part,   *)
(* as the specification describes it (section 4.1, 4.3).                    *)

BigInt(n) == [t |-> "int", n |-> n, s |-> "", ps |-> <<>>]
String_(w) == [t |-> "str", n |-> 0, s |-> w, ps |-> <<>>]
PreString(w) == [t |-> "prestr", n |-> 0, s |-> w, ps |-> <<>>]
Parts(seq) == [t |-> "parts", n |-> 0, s |-> "", ps |-> seq]
Infinity == [t |-> "inf", n |-> 0, s |-> "", ps |-> <<>>]
NegativeInfinity == [t |-> "neginf", n |-> 0, s |-> "", ps |-> <<>>]
Zero == BigInt(0)

\* Part.IsNull: the zero integer, the empty string.
IsNull(p) ==
    CASE p.t = "int" -> p.n = 0
      [] p.t = "str" -> p.s = ""
      [] p.t = "prestr" -> p.s = ""
      [] p.t = "parts" -> Len(p.ps) = 0
      [] OTHER -> FALSE

\* Part.Compare.  A Parts value compares element by element; where one side
\* has run out, the shorter side is the smaller.
RECURSIVE PartCompare(_, _)
RECURSIVE PartsCompareFrom(_, _, _)
PartsCompareFrom(p, o, i) ==
    IF i > Len(p) /\ i > Len(o) THEN 0
    ELSE IF i > Len(p) THEN -1
    ELSE IF i > Len(o) THEN 1
    ELSE LET r == PartCompare(p[i], o[i])
         IN IF r # 0 THEN r ELSE PartsCompareFrom(p, o, i + 1)

PartCompare(x, y) ==
    CASE x.t = "inf" -> IF y.t = "inf" THEN 0 ELSE 1
      [] x.t = "neginf" -> IF y.t = "neginf" THEN 0 ELSE -1
      [] x.t = "int" /\ y.t = "int" -> Sgn(x.n - y.n)
      [] x.t = "int" /\ y.t \in {"str", "prestr"} -> 1
      [] x.t \in {"str", "prestr"} /\ y.t = "int" -> -1
      [] x.t \in {"str", "prestr"} /\ y.t \in {"str", "prestr"} ->
            IF x.s = y.s THEN 0
            ELSE IF x.s = "" THEN -1
            ELSE IF y.s = "" THEN 1
            ELSE Sgn(WordRank(x.s) - WordRank(y.s))
      [] x.t = "parts" /\ y.t = "inf" -> -1
      [] x.t = "parts" /\ y.t = "neginf" -> 1
      [] x.t = "parts" /\ y.t = "parts" ->
            IF x.ps = y.ps THEN 0 ELSE PartsCompareFrom(x.ps, y.ps, 1)

\* Parts.Normalize: drop the trailing null elements.
RECURSIVE Normalize(_)
Normalize(ps) ==
    IF Len(ps) > 0 /\ IsNull(ps[Len(ps)])
    THEN Normalize(SubSeq(ps, 1, Len(ps) - 1))
    ELSE ps

\* Parts.Padding(size, padding): append padding up to size elements.
Padding(ps, size, padding) ==
    IF size - Len(ps) <= 0 THEN ps
    ELSE ps \o [i \in 1..(size - Len(ps)) |-> padding]

\* part.BigIntSliceToParts
BigIntSliceToParts(release) == [i \in DOMAIN release |-> BigInt(release[i])]

-----------------------------------------------------------------------------
(* version.go: Version, Parse, cmpkey *)

letterNumber(l, n) == [letter |-> l, number |-> n]

NullLetterNumber == letterNumber("", 0)

isNull(ln) == ln.letter = "" /\ ln.number = 0

PreWords == {"a", "alpha", "b", "beta", "rc", "c", "pre", "preview"}

preReleaseAliases(w) ==
    CASE w \in {"a", "alpha"} -> "a"
      [] w \in {"b", "beta"} -> "b"
      [] w \in {"rc", "c", "pre", "preview"} -> "rc"

PostWords == {"post", "rev", "r"}

postReleaseAliases(w) == CASE w \in PostWords -> "post"

DevWords == {"dev"}

RECURSIVE SkipSpaces(_, _)
SkipSpaces(s, i) == IF At(s, i) = " " THEN SkipSpaces(s, i + 1) ELSE i

\* The end of `(?:\.[0-9]+)*` started at i.
RECURSIVE ReleaseEnd(_, _)
ReleaseEnd(s, i) ==
    IF At(s, i) = "." /\ IsDigits(At(s, i + 1)) THEN ReleaseEnd(s, i + 2) ELSE i

\* `[-_\.]?(word)[-_\.]?([0-9]+)?` at position i of s, the word (case
\* folded) one of words: whether it matches, where it ends, and the letter
\* and number captures ("" for a capture that took no part).
MatchLetterNumber(s, i, words) ==
    LET j == IF IsSep(At(s, i)) /\ ToLower(At(s, i + 1)) \in words
             THEN i + 1 ELSE i
    IN IF ToLower(At(s, j)) \notin words
       THEN [ok |-> FALSE, i |-> i, l |-> "", n |-> ""]
       ELSE LET k == IF IsSep(At(s, j + 1)) THEN j + 2 ELSE j + 1
            IN IF IsDigits(At(s, k))
               THEN [ok |-> TRUE, i |-> k + 1, l |-> s[j], n |-> s[k]]
               ELSE [ok |-> TRUE, i |-> k, l |-> s[j], n |-> ""]

\* `(?:-([0-9]+))|(?:[-_\.]?(post|rev|r)[-_\.]?([0-9]+)?)` at position i.
MatchPost(s, i) ==
    IF At(s, i) = "-" /\ IsDigits(At(s, i + 1))
    THEN [ok |-> TRUE, i |-> i + 2, l |-> "", n |-> s[i + 1]]
    ELSE MatchLetterNumber(s, i, PostWords)

IsAlnum(x) == IsDigits(x) \/ IsLetters(x)

\* The end of `[a-z0-9]+(?:[-_\.][a-z0-9]+)*` started at i (i itself when
\* nothing matches).
RECURSIVE LocalEnd(_, _)
LocalEnd(s, i) ==
    IF IsAlnum(At(s, i)) THEN LocalEnd(s, i + 1)
    ELSE IF IsSep(At(s, i)) /\ IsAlnum(At(s, i - 1)) /\ IsAlnum(At(s, i + 1))
         THEN LocalEnd(s, i + 1)
    ELSE i

\* The key's local part: every dot-separated token an integer if it parses
\* as one, a PreString otherwise.
LocalParts(local) ==
    LET toks == SplitOn(local, ".")
    IN [i \in DOMAIN toks |->
            IF Len(toks[i]) = 1 /\ IsDigits(toks[i][1])
            THEN BigInt(NumVal(toks[i][1]))
            ELSE CASE Len(toks[i]) = 1 -> PreString(toks[i][1])]

cmpkeyNoNormalize(epoch, release, pre, post, dev, local) ==
    [epoch |-> BigInt(epoch),
     release |-> BigIntSliceToParts(release),
     pre |-> IF isNull(pre) /\ isNull(post) /\ ~isNull(dev) THEN NegativeInfinity
             ELSE IF isNull(pre) THEN Infinity
             ELSE Parts(<<String_(pre.letter), BigInt(pre.number)>>),
     post |-> IF isNull(post) THEN NegativeInfinity
              ELSE Parts(<<String_(post.letter), BigInt(post.number)>>),
     dev |-> IF isNull(dev) THEN Infinity
             ELSE Parts(<<String_(dev.letter), BigInt(dev.number)>>),
     local |-> IF local # <<>> THEN Parts(LocalParts(local))
               ELSE NegativeInfinity]

cmpkeyDevFirst(epoch, release, pre, post, dev, local) ==
    [epoch |-> BigInt(epoch),
     release |-> Normalize(BigIntSliceToParts(release)),
     pre |-> IF isNull(pre) THEN Infinity
             ELSE Parts(<<String_(pre.letter), BigInt(pre.number)>>),
     post |-> IF isNull(post) THEN NegativeInfinity
              ELSE Parts(<<String_(post.letter), BigInt(post.number)>>),
     dev |-> IF isNull(dev) THEN Infinity
             ELSE Parts(<<String_(dev.letter), BigInt(dev.number)>>),
     local |-> IF local # <<>> THEN Parts(LocalParts(local))
               ELSE NegativeInfinity]

cmpkey(epoch, release, pre, post, dev, local) ==
    [epoch |-> BigInt(epoch),
     release |-> Normalize(BigIntSliceToParts(release)),
     pre |-> IF isNull(pre) /\ isNull(post) /\ ~isNull(dev) THEN NegativeInfinity
             ELSE IF isNull(pre) THEN Infinity
             ELSE Parts(<<String_(pre.letter), BigInt(pre.number)>>),
     post |-> IF isNull(post) THEN NegativeInfinity
              ELSE Parts(<<String_(post.letter), BigInt(post.number)>>),
     dev |-> IF isNull(dev) THEN Infinity
             ELSE Parts(<<String_(dev.letter), BigInt(dev.number)>>),
     local |-> IF local # <<>> THEN Parts(LocalParts(local))
               ELSE NegativeInfinity]

\* Version{}: what Parse returns beside an error.
ZeroVersion ==
    [epoch |-> 0, release |-> <<>>, pre |-> NullLetterNumber,
     post |-> NullLetterNumber, dev |-> NullLetterNumber, local |-> <<>>,
     key |-> [epoch |-> Zero, release |-> <<>>, pre |-> Zero, post |-> Zero,
              dev |-> Zero, local |-> Zero],
     preReleaseIncluded |-> FALSE, original |-> <<>>]

\* The version Parse builds from the captures of the regular expression:
\* the epoch and release, the pre, post and dev matches, the local segment.
NewVersion(text, epoch, release, mPre, mPost, mDev, local) ==
    LET pre == letterNumber(
                   IF mPre.ok THEN preReleaseAliases(ToLower(mPre.l)) ELSE "",
                   IF mPre.n # "" THEN NumVal(mPre.n) ELSE 0)
        post == letterNumber(
                    IF mPost.ok /\ mPost.l # "" THEN postReleaseAliases(ToLower(mPost.l))
                    ELSE IF mPost.ok /\ mPost.n # "" THEN "post" ELSE "",
                    IF mPost.n # "" THEN NumVal(mPost.n) ELSE 0)
        dev == letterNumber(
                   IF mDev.ok THEN ToLower(mDev.l) ELSE "",
                   IF mDev.n # "" THEN NumVal(mDev.n) ELSE 0)
    IN [epoch |-> epoch, release |-> release, pre |-> pre,
        post |-> post, dev |-> dev, local |-> local,
        key |-> cmpkey(epoch, release, pre, post, dev, local),
        preReleaseIncluded |-> FALSE, original |-> text]

\* Parse, from the release on: s is the text, i2 the position of the
\* release, epoch the epoch read before it.
ParseFrom(s, i2, epoch) ==
    IF ~IsDigits(At(s, i2)) THEN [err |-> TRUE, v |-> ZeroVersion]
    ELSE
    Let(LAMBDA i3 :
    Let(LAMBDA mPre :
    Let(LAMBDA mPost :
    Let(LAMBDA mDev :
    Let(LAMBDA i7 :
        IF SkipSpaces(s, i7) # Len(s) + 1
        THEN [err |-> TRUE, v |-> ZeroVersion]
        ELSE [err |-> FALSE,
              v |-> NewVersion(s, epoch,
                       [k \in 1..((i3 - i2 + 1) \div 2) |-> NumVal(s[i2 + 2 * (k - 1)])],
                       mPre, mPost, mDev,
                       IF i7 > mDev.i
                       THEN [k \in 1..(i7 - mDev.i - 1) |-> ToLower(s[mDev.i + k])]
                       ELSE <<>>)],
        IF At(s, mDev.i) = "+" /\ LocalEnd(s, mDev.i + 1) > mDev.i + 1
        THEN LocalEnd(s, mDev.i + 1) ELSE mDev.i),
        MatchLetterNumber(s, mPost.i, DevWords)),
        MatchPost(s, mPre.i)),
        MatchLetterNumber(s, i3, PreWords)),
        ReleaseEnd(s, i2 + 1))

\* Parse, from the epoch on: i1 is the position after `\s*v?`.
ParseEpoch(s, i1) ==
    IF IsDigits(At(s, i1)) /\ At(s, i1 + 1) = "!"
    THEN ParseFrom(s, i1 + 2, NumVal(s[i1]))
    ELSE ParseFrom(s, i1, 0)

\* Parse: [err, v].
Parse(text) ==
    Let(LAMBDA s :
        Let2(ParseEpoch, s,
             IF ToLower(At(s, SkipSpaces(s, 1))) = "v"
             THEN SkipSpaces(s, 1) + 1 ELSE SkipSpaces(s, 1)),
        text)

\* key.compare
keyCompare(k, o) ==
    PartCompare(Parts(<<k.epoch, Parts(k.release), k.pre, k.post, k.dev, k.local>>),
                Parts(<<o.epoch, Parts(o.release), o.pre, o.post, o.dev, o.local>>))

\* BaseVersion: epoch and release alone.
BaseVersion(v) ==
    (IF v.epoch > 0 THEN <<NumStr(v.epoch), "!">> ELSE <<>>)
    \o JoinDots([i \in DOMAIN v.release |-> <<NumStr(v.release[i])>>])

\* Version.String: the canonical rendering.
String(v) ==
    BaseVersion(v)
    \o (IF ~isNull(v.pre) THEN <<v.pre.letter, NumStr(v.pre.number)>> ELSE <<>>)
    \o (IF ~isNull(v.post) THEN <<".", "post", NumStr(v.post.number)>> ELSE <<>>)
    \o (IF ~isNull(v.dev) THEN <<".", "dev", NumStr(v.dev.number)>> ELSE <<>>)
    \o (IF v.local # <<>> THEN <<"+">> \o v.local ELSE <<>>)

CompareBaseFastPath(v, other) ==
    IF BaseVersion(v) = BaseVersion(other) THEN 0
    ELSE LET k1 == [v.key EXCEPT
                       !.release = Padding(@, Len(other.key.release), Zero)]
             k2 == [other.key EXCEPT
                       !.release = Padding(@, Len(other.key.release), Zero)]
         IN keyCompare(k1, k2)

\* Version.Compare
Compare(v, other) ==
    IF String(v) = String(other) THEN 0
    ELSE LET k1 == [v.key EXCEPT
                       !.release = Padding(@, Len(other.key.release), Zero)]
             k2 == [other.key EXCEPT
                       !.release = Padding(@, Len(other.key.release), Zero)]
         IN keyCompare(k1, k2)

Equal(v, o) == Compare(v, o) = 0
GreaterThan(v, o) == Compare(v, o) > 0
GreaterThanOrEqual(v, o) == Compare(v, o) >= 0
LessThan(v, o) == Compare(v, o) < 0
LessThanOrEqual(v, o) == Compare(v, o) <= 0

\* Version.Public: String() cut at the first "+".
Public(v) == SplitOn(String(v), "+")[1]

IsPreRelease(v) ==
    IF v.preReleaseIncluded THEN FALSE ELSE ~isNull(v.pre) \/ ~isNull(v.dev)

IsPostRelease(v) == ~isNull(v.post)

-----------------------------------------------------------------------------
(* specifier.go: constraint parsing and validation.  An operator is one     *)
(* lexeme; the separator "||" of NewConstraints is one lexeme.              *)

Operators == {"~=", "===", "==", "!=", "<=", ">=", "<", ">"}

\* The end of `[^\s]*` started at i.
RECURSIVE NonSpaceEnd(_, _)
NonSpaceEnd(s, i) ==
    IF i <= Len(s) /\ s[i] # " " THEN NonSpaceEnd(s, i + 1) ELSE i

validateNoReleaseCount(operator, version) ==
    LET hasWildcard == HasWildcardSuffix(version)
        p == Parse(TrimWildcardSuffix(version))
        v == p.v
    IN IF p.err THEN TRUE
       ELSE CASE operator \in {"==", "!="} ->
                    hasWildcard /\ (~isNull(v.dev) \/ v.local # <<>>)
              [] OTHER -> hasWildcard \/ v.local # <<>>

validateWildcardAnywhere(operator, version) ==
    LET hasWildcard == HasWildcardSuffix(version)
        p == Parse(TrimWildcardSuffix(version))
        v == p.v
    IN IF p.err THEN TRUE
       ELSE CASE operator \in {"==", "!="} ->
                    hasWildcard /\ (~isNull(v.dev) \/ v.local # <<>>)
              [] operator = "~=" ->
                    hasWildcard \/ Len(v.release) < 2 \/ v.local # <<>>
              [] OTHER -> v.local # <<>>

\* validate: TRUE when it returns an error.
validate(operator, version) ==
    LET hasWildcard == HasWildcardSuffix(version)
        p == Parse(TrimWildcardSuffix(version))
        v == p.v
    IN IF p.err THEN TRUE
       ELSE CASE operator \in {"==", "!="} ->
                    hasWildcard /\ (~isNull(v.dev) \/ v.local # <<>>)
              [] operator = "~=" ->
                    hasWildcard \/ Len(v.release) < 2 \/ v.local # <<>>
              [] OTHER -> hasWildcard \/ v.local # <<>>

NoConstraint == [version |-> <<>>, operator |-> "", original |-> <<>>]

\* newConstraint: [err, c].
newConstraint(text) ==
    LET i0 == SkipSpaces(text, 1)
        operator == At(text, i0)
        i1 == SkipSpaces(text, i0 + 1)
        i2 == NonSpaceEnd(text, i1)
        version == SubSeq(text, i1, i2 - 1)
        matched == operator \in Operators /\ SkipSpaces(text, i2) = Len(text) + 1
    IN IF ~matched THEN [err |-> TRUE, c |-> NoConstraint]
       ELSE IF operator # "===" /\ validate(operator, version)
       THEN [err |-> TRUE, c |-> NoConstraint]
       ELSE [err |-> FALSE,
             c |-> [version |-> version, operator |-> operator, original |-> text]]

\* The clause texts of an expression: strings.Split on "||", then on ",".
Clauses(e) ==
    LET groups == SplitOn(e, "||")
    IN [g \in DOMAIN groups |-> SplitOn(groups[g], ",")]

-----------------------------------------------------------------------------
(* specifier.go: clause evaluation.  An evaluation yields "true", "false",  *)
(* or "panic" where the Go code panics (MustParse on a text that does not   *)
(* parse, a slice bound out of range).                                      *)

B(x) == IF x THEN "true" ELSE "false"

\* versionSplit: the pieces between dots, a piece `[0-9]+(a|b|c|rc)[0-9]+`
\* (case-sensitive) split in two.
RECURSIVE SplitPieces(_)
SplitPieces(pieces) ==
    IF Len(pieces) = 0 THEN <<>>
    ELSE LET v == pieces[1]
         IN (IF Len(v) = 3 /\ IsDigits(v[1]) /\ v[2] \in {"a", "b", "c", "rc"}
                /\ IsDigits(v[3])
             THEN <<<<v[1]>>, <<v[2], v[3]>>>>
             ELSE <<v>>) \o SplitPieces(Tail(pieces))

versionSplit(version) == SplitPieces(SplitOn(version, "."))

\* isDigist: strconv.Atoi accepts a digit run, optionally signed.
isDigist(tok) ==
    \/ Len(tok) = 1 /\ IsDigits(tok[1])
    \/ Len(tok) = 2 /\ tok[1] \in {"+", "-"} /\ IsDigits(tok[2])

RECURSIVE SelectDigits(_)
SelectDigits(toks) ==
    IF Len(toks) = 0 THEN <<>>
    ELSE (IF isDigist(toks[1]) THEN <<toks[1]>> ELSE <<>>) \o SelectDigits(Tail(toks))

\* for i := 0; i < len(other)-len(rel); i++ { rel = append(rel, "0") }:
\* the bound is read again on every iteration.
RECURSIVE PadLoop(_, _, _)
PadLoop(rel, otherLen, i) ==
    IF i < otherLen - Len(rel) THEN PadLoop(Append(rel, <<"0">>), otherLen, i + 1)
    ELSE rel

\* padVersion: [panic, left, right].
padVersion(left, right) ==
    LET leftRelease == SelectDigits(left)
        rightRelease == SelectDigits(right)
    IN IF Len(leftRelease) > Len(left) \/ Len(rightRelease) > Len(left)
       THEN [panic |-> TRUE, left |-> <<>>, right |-> <<>>]
       ELSE LET leftRest == SubSeq(left, Len(leftRelease) + 1, Len(left))
                rightRest == SubSeq(left, Len(rightRelease) + 1, Len(left))
                rightPadded == PadLoop(rightRelease, Len(leftRelease), 0)
                leftPadded == PadLoop(leftRelease, Len(rightPadded), 0)
            IN [panic |-> FALSE, left |-> leftPadded \o leftRest,
                right |-> rightPadded \o rightRest]

specifierEqual(prospective, spec) ==
    Let(LAMBDA pp :
        IF HasWildcardSuffix(spec)
        THEN Let2(LAMBDA splitSpec, splitAll :
                 Let(LAMBDA padded :
                         IF pp.err \/ padded.panic THEN "panic"
                         ELSE B(padded.left = padded.right),
                     padVersion(splitSpec,
                                IF Len(splitAll) > Len(splitSpec)
                                THEN SubSeq(splitAll, 1, Len(splitSpec))
                                ELSE splitAll)),
                 versionSplit(TrimWildcardSuffix(spec)),
                 versionSplit(String(pp.v)))
        ELSE Let(LAMBDA specVersion :
                     IF specVersion.err THEN "panic"
                     ELSE IF specVersion.v.local = <<>>
                     THEN IF pp.err THEN "panic" ELSE B(Equal(specVersion.v, pp.v))
                     ELSE B(Equal(specVersion.v, prospective)),
                 Parse(spec)),
        Parse(Public(prospective)))

Not(r) == IF r = "panic" THEN r ELSE B(r = "false")

specifierNotEqual(prospective, spec) == Not(specifierEqual(prospective, spec))

\* MustParse(x.BaseVersion()).Equal(MustParse(y.BaseVersion())): "panic",
\* "true" or "false".
SameBase(x, y) ==
    Let2(LAMBDA bx, by : IF bx.err \/ by.err THEN "panic" ELSE B(Equal(bx.v, by.v)),
         Parse(BaseVersion(x)), Parse(BaseVersion(y)))

specifierLessThanNoExclusion(prospective, spec) ==
    Let(LAMBDA s : IF s.err THEN "panic" ELSE B(LessThan(prospective, s.v)),
        Parse(spec))

specifierLessThan(prospective, spec) ==
    Let(LAMBDA s :
        IF s.err THEN "panic"
        ELSE IF ~LessThan(prospective, s.v) THEN "false"
        ELSE IF ~IsPreRelease(s.v) /\ IsPreRelease(prospective)
        THEN Not(SameBase(prospective, s.v))
        ELSE "true",
        Parse(spec))

specifierGreaterThanNoLocalRule(prospective, spec) ==
    Let(LAMBDA s :
        IF s.err THEN "panic"
        ELSE IF ~GreaterThan(prospective, s.v) THEN "false"
        ELSE IF ~IsPostRelease(s.v) /\ IsPostRelease(prospective)
        THEN Not(SameBase(prospective, s.v))
        ELSE "true",
        Parse(spec))

specifierGreaterThan(prospective, spec) ==
    Let(LAMBDA s :
        IF s.err THEN "panic"
        ELSE IF ~GreaterThan(prospective, s.v) THEN "false"
        ELSE IF (~IsPostRelease(s.v) /\ IsPostRelease(prospective))
                \/ prospective.local # <<>>
        THEN Not(SameBase(prospective, s.v))
        ELSE "true",
        Parse(spec))

\* strings.EqualFold(prospective.String(), spec)
specifierArbitrary(prospective, spec) ==
    Let(LAMBDA str :
        B(Len(str) = Len(spec)
          /\ \A i \in DOMAIN str : ToLower(str[i]) = ToLower(spec[i])),
        String(prospective))

specifierLessThanEqual(prospective, spec) ==
    Let2(LAMBDA p, s : IF p.err \/ s.err THEN "panic" ELSE B(LessThanOrEqual(p.v, s.v)),
         Parse(Public(prospective)), Parse(spec))

specifierGreaterThanEqual(prospective, spec) ==
    Let2(LAMBDA p, s : IF p.err \/ s.err THEN "panic" ELSE B(GreaterThanOrEqual(p.v, s.v)),
         Parse(Public(prospective)), Parse(spec))

\* The tokens of the spec before the first one that starts with "post" or
\* "dev" (strings.HasPrefix, case-sensitive).
RECURSIVE PrefixElements(_)
PrefixElements(toks) ==
    IF Len(toks) = 0 THEN <<>>
    ELSE IF Len(toks[1]) > 0 /\ toks[1][1] \in {"post", "dev"} THEN <<>>
    ELSE <<toks[1]>> \o PrefixElements(Tail(toks))

\* specifierCompatible, given the prefix elements.
CompatibleWith(prospective, spec, prefixElements) ==
    IF Len(prefixElements) = 0 THEN "panic"
    ELSE Let(LAMBDA ge :
                 IF ge # "true" THEN ge
                 ELSE specifierEqual(prospective,
                          JoinDots(SubSeq(prefixElements, 1, Len(prefixElements) - 1))
                              \o <<".", "*">>),
             specifierGreaterThanEqual(prospective, spec))

specifierCompatibleWholePrefix(prospective, spec) ==
    Let(LAMBDA prefixElements : CompatibleWith(prospective, spec, prefixElements),
        versionSplit(spec))

specifierCompatible(prospective, spec) ==
    Let(LAMBDA prefixElements : CompatibleWith(prospective, spec, prefixElements),
        PrefixElements(versionSplit(spec)))

\* constraint.check: the operator's function applied to the candidate.
check(cn, v) ==
    CASE cn.operator = "==" -> specifierEqual(v, cn.version)
      [] cn.operator = "!=" -> specifierNotEqual(v, cn.version)
      [] cn.operator = ">" -> specifierGreaterThan(v, cn.version)
      [] cn.operator = "<" -> specifierLessThan(v, cn.version)
      [] cn.operator = ">=" -> specifierGreaterThanEqual(v, cn.version)
      [] cn.operator = "<=" -> specifierLessThanEqual(v, cn.version)
      [] cn.operator = "===" -> specifierArbitrary(v, cn.version)
      [] cn.operator = "~=" -> specifierCompatible(v, cn.version)

-----------------------------------------------------------------------------
(* Inputs: version texts *)

MaxRelLen == 2
MaxNum == 1

\* Release components used in the inputs: zero and non-zero.
Comps == {0, 1}

RECURSIVE SeqsUpTo(_, _)
SeqsUpTo(S, n) ==
    IF n = 0 THEN {<<>>}
    ELSE LET shorter == SeqsUpTo(S, n - 1)
         IN shorter \cup {Append(q, x) : q \in {r \in shorter : Len(r) = n - 1}, x \in S}

Releases == SeqsUpTo(Comps, MaxRelLen) \ {<<>>}

ReleaseText(r) == JoinDots([i \in DOMAIN r |-> <<NumStr(r[i])>>])

Nums == 0..MaxNum

\* Suffixes of the inputs, canonically spelled.
PostSuffixes == {<<>>} \cup {<<".", "post", NumStr(n)>> : n \in Nums}
DevSuffixes == {<<>>} \cup {<<".", "dev", NumStr(n)>> : n \in Nums}
LocalSuffixes == {<<>>, <<"+", "abc">>, <<"+", "1">>, <<"+", "1", ".", "0">>,
                  <<"+", "abc", ".", "1">>}

\* The version texts of the ordering scenario: every release alone and as a
\* dev-release; the release 1.0 with every combination of a pre-, post- and
\* dev-release; the release 1 with each suffix at every number; local
\* versions; epochs; two other spellings; and a text that is no version.
OrderTexts ==
    {ReleaseText(r) \o x : r \in Releases, x \in {<<>>, <<".", "dev", "1">>}}
    \cup {<<"1", ".", "0">> \o p \o q \o d :
            p \in {<<>>, <<"a", "1">>, <<"b", "1">>, <<"rc", "1">>},
            q \in {<<>>, <<".", "post", "1">>},
            d \in {<<>>, <<".", "dev", "1">>}}
    \cup {<<"1">> \o x :
            x \in ({<<"a", NumStr(n)>> : n \in Nums}
                   \cup PostSuffixes \cup DevSuffixes) \ {<<>>}}
    \cup {<<"1", ".", "0">> \o x : x \in LocalSuffixes \ {<<>>}}
    \cup {<<"1", "+", "x">>, <<"1", "!", "0", ".", "1">>, <<"1", "!", "1">>}
    \cup {<<"v", "1", ".", "0">>, <<"1", ".", "0", "-", "1">>,
          <<"1", ".", "0", "x">>}

Unparsed == [err |-> TRUE, v |-> ZeroVersion]
NoCmp ==
    [ab |-> 0, ba |-> 0, bc |-> 0, ac |-> 0,
     lt |-> FALSE, eq |-> FALSE, gt |-> FALSE, rgt |-> FALSE]
NoBuilt == [err |-> FALSE, cs |-> <<>>]

-----------------------------------------------------------------------------
(* Ordering scenario: three texts are parsed, then compared pairwise. *)

OrderInit ==
    /\ phase = "start"
    /\ a = Unparsed /\ b = Unparsed /\ c = Unparsed
    /\ cmp = NoCmp
    /\ expr = <<>> /\ css = <<>> /\ cur = <<>> /\ built = NoBuilt
    /\ cand = ZeroVersion /\ gi = 0 /\ ci = 0 /\ result = "none"

ParseVersions ==
    /\ phase = "start"
    /\ \E ta \in OrderTexts, tb \in OrderTexts, tc \in OrderTexts :
           /\ a' = Parse(ta)
           /\ b' = Parse(tb)
           /\ c' = Parse(tc)
    /\ phase' = "parsed"
    /\ UNCHANGED <<cmp, checkVars>>

CompareVersions ==
    /\ phase = "parsed"
    /\ ~a.err /\ ~b.err /\ ~c.err
    /\ cmp' = [ab |-> Compare(a.v, b.v), ba |-> Compare(b.v, a.v),
               bc |-> Compare(b.v, c.v), ac |-> Compare(a.v, c.v),
               lt |-> LessThan(a.v, b.v), eq |-> Equal(a.v, b.v),
               gt |-> GreaterThan(a.v, b.v), rgt |-> GreaterThan(b.v, a.v)]
    /\ phase' = "compared"
    /\ UNCHANGED <<a, b, c, checkVars>>

OrderNext == ParseVersions \/ CompareVersions

SpecOrder == OrderInit /\ [][OrderNext]_vars

-----------------------------------------------------------------------------
(* Ordering properties *)

Compared == phase = "compared"

\* C1: Compare is a total order on parsed versions: exactly one of
\* a.LessThan(b), a.Equal(b), a.GreaterThan(b) holds; a.LessThan(b) iff
\* b.GreaterThan(a), with Compare(a,b) = -Compare(b,a); and a < b and b < c
\* imply a < c.
C1_TotalOrder ==
    Compared =>
        /\ (cmp.lt /\ ~cmp.eq /\ ~cmp.gt) \/ (~cmp.lt /\ cmp.eq /\ ~cmp.gt)
              \/ (~cmp.lt /\ ~cmp.eq /\ cmp.gt)
        /\ cmp.lt <=> cmp.rgt
        /\ cmp.ab = -cmp.ba
        /\ (cmp.ab < 0 /\ cmp.bc < 0) => cmp.ac < 0

\* Three versions, pairwise different, in strictly ascending order, the
\* middle one with a longer release than the others.
C1_Witness ==
    /\ Compared
    /\ cmp.ab < 0 /\ cmp.bc < 0 /\ cmp.ac < 0
    /\ Len(b.v.release) > Len(a.v.release)
    /\ Len(b.v.release) > Len(c.v.release)

\* The ascending chain of section 8.
Chain ==
    <<<<"1", ".", "0", ".", "dev", "1">>,
      <<"1", ".", "0", "a", "1">>,
      <<"1", ".", "0", "a", "1", ".", "post", "1", ".", "dev", "1">>,
      <<"1", ".", "0", "a", "1", ".", "post", "1">>,
      <<"1", ".", "0", "b", "1">>,
      <<"1", ".", "0", "rc", "1">>,
      <<"1", ".", "0">>,
      <<"1", ".", "0", ".", "post", "1">>,
      <<"1", ".", "1", ".", "dev", "1">>>>

\* C2: Compare orders 1.0.dev1 < 1.0a1 < 1.0a1.post1.dev1 < 1.0a1.post1 <
\* 1.0b1 < 1.0rc1 < 1.0 < 1.0.post1 < 1.1.dev1 strictly ascending: any
\* earlier element of the chain compares -1 to any later one, and the later
\* one +1 to the earlier.
C2_ChainAscending ==
    Compared =>
        \A i \in DOMAIN Chain, j \in DOMAIN Chain :
            (i < j /\ a.v.original = Chain[i] /\ b.v.original = Chain[j])
                => (cmp.ab = -1 /\ cmp.ba = 1 /\ cmp.lt /\ cmp.rgt)

\* The dev-only release 1.0.dev1 has been compared with the pre-release
\* 1.0a1, and 1.0a1.post1.dev1 with the final release 1.0.
C2_Witness ==
    /\ Compared
    /\ a.v.original = Chain[1] /\ b.v.original = Chain[2]
    /\ c.v.original = Chain[9]
    /\ cmp.ab = -1 /\ cmp.bc = -1

\* A release without its trailing zero components.
RECURSIVE TrimZeros(_)
TrimZeros(r) ==
    IF Len(r) > 0 /\ r[Len(r)] = 0 THEN TrimZeros(SubSeq(r, 1, Len(r) - 1)) ELSE r

SameSuffixes(v, w) ==
    /\ v.epoch = w.epoch /\ v.pre = w.pre /\ v.post = w.post
    /\ v.dev = w.dev /\ v.local = w.local

\* C3: two parsed versions that differ only in the number of trailing 0
\* release components compare 0 in both argument orders; and a version whose
\* release extends the other's by one non-zero component compares greater,
\* in both argument orders.
C3_TrailingZeros ==
    Compared =>
        /\ (SameSuffixes(a.v, b.v) /\ TrimZeros(a.v.release) = TrimZeros(b.v.release))
              => (cmp.ab = 0 /\ cmp.ba = 0)
        /\ (SameSuffixes(a.v, b.v)
            /\ \E x \in Comps \ {0} : b.v.release = Append(a.v.release, x))
              => (cmp.ab = -1 /\ cmp.ba = 1)

\* 1.0.dev1 has been compared with 1.dev1 (a longer release on the left),
\* and 1.dev1 with 1.1.dev1.
C3_Witness ==
    /\ Compared
    /\ a.v.release = <<1, 0>> /\ b.v.release = <<1>> /\ c.v.release = <<1, 1>>
    /\ ~isNull(a.v.dev) /\ SameSuffixes(a.v, b.v) /\ SameSuffixes(b.v, c.v)
    /\ cmp.ab = 0 /\ cmp.bc = -1

-----------------------------------------------------------------------------
(* Inputs: constraint expressions and candidates *)

\* The version texts of the clauses: every release; suffixed, local and
\* epoch versions; other spellings; texts that are no version; and wildcard
\* forms.
PlainSpecTexts ==
    {ReleaseText(r) : r \in Releases}
    \cup {<<"1", ".", "0">> \o x :
            x \in {<<"a", "1">>, <<".", "post", "1">>, <<".", "dev", "1">>,
                   <<".", "post", "1", ".", "dev", "1">>, <<"+", "abc">>}}
    \cup {<<"1", ".", "1", ".", "0">>,
          <<"1", ".", "1", ".", "post", "1">>, <<"1", "!", "1", ".", "0">>,
          <<"v", "1", ".", "0">>, <<"1", ".", "0", "A", "1">>,
          <<"1", ".", "0", ".", "rev", "1">>,
          <<"abc">>, <<>>}

WildSpecTexts ==
    {t \o <<".", "*">> :
        t \in {ReleaseText(r) : r \in Releases}
              \cup {<<"1", ".", "0", "a", "1">>, <<"1", ".", "0", ".", "post", "1">>,
                    <<"1", ".", "0", ".", "dev", "1">>, <<"1", ".", "0", "+", "abc">>,
                    <<"1", "!", "1", ".", "0">>, <<"1", "!", "1">>,
                    <<"v", "1", ".", "0">>, <<"1", ".", "0", "A", "1">>,
                    <<"1", ".", "0", "rc", "1">>, <<"1", ".", "0", "RC", "1">>}}

SingleClauses == {<<op>> \o t : op \in Operators, t \in PlainSpecTexts \cup WildSpecTexts}

V10 == <<"1", ".", "0">>
V11 == <<"1", ".", "1">>
V01 == <<"0", ".", "1">>

\* Expressions of several clauses and groups, some with a clause that
\* validation rejects, one with a clause that has no operator.
CompoundExprs ==
    {<<">=">> \o V10 \o <<",", "<">> \o V11,
     <<">=">> \o V11 \o <<",", "<">> \o V10,
     <<"<">> \o V10 \o <<"||", ">">> \o V10,
     <<"==">> \o V10 \o <<",", "!=">> \o V10 \o <<"||", ">=">> \o V11 \o <<",", "!=">> \o V01,
     <<">=">> \o V01 \o <<",", "<">> \o V11 \o <<",", "!=">> \o V10,
     <<"<">> \o V01 \o <<"||", ">">> \o V11 \o <<"||", "==">> \o V10 \o <<".", "*">>,
     <<" ", ">=", " ">> \o V10 \o <<" ", ",", " ", "<", " ">> \o V11 \o <<" ">>,
     <<">=">> \o V10 \o <<",", "~=", "1">>,
     <<"~=", "1", "||", ">=">> \o V10,
     <<">=">> \o V10 \o <<"||", "<">> \o V11 \o <<".", "*">>,
     <<">=">> \o V10 \o <<"||">> \o V11,
     <<">=">> \o V10 \o <<",">>,
     <<"~=">> \o V11 \o <<"||", ">">> \o V10}

Exprs == SingleClauses \cup CompoundExprs

CandReleases == SeqsUpTo(Comps, MaxRelLen + 1) \ {<<>>}

CandTexts ==
    {ReleaseText(r) : r \in CandReleases}
    \cup {<<"1", ".", "0">> \o x :
            x \in {<<"a", "1">>, <<"rc", "1">>, <<".", "post", "1">>, <<".", "dev", "1">>,
                   <<"a", "1", ".", "dev", "1">>, <<".", "post", "1", ".", "dev", "1">>,
                   <<"+", "abc">>, <<".", "post", "1", "+", "abc">>}}
    \cup {<<"1", ".", "1">> \o x :
            x \in {<<"a", "1">>, <<".", "post", "1">>, <<".", "dev", "1">>, <<"+", "abc">>}}
    \cup {<<"1", ".", "0", ".", "0", ".", "dev", "1">>, <<"0", ".", "1", ".", "dev", "1">>,
          <<"1", "!", "1", ".", "0">>, <<"1", "!", "0", ".", "1">>}

-----------------------------------------------------------------------------
(* Constraint scenario: NewConstraints builds the constraints of an         *)
(* expression clause by clause; Check evaluates them against a candidate    *)
(* clause by clause.                                                        *)

CheckInit ==
    /\ phase = "start"
    /\ a = Unparsed /\ b = Unparsed /\ c = Unparsed /\ cmp = NoCmp
    /\ expr = <<>> /\ css = <<>> /\ cur = <<>> /\ built = NoBuilt
    /\ cand = ZeroVersion /\ gi = 0 /\ ci = 0 /\ result = "none"

\* NewConstraints is called.
StartNewConstraints ==
    /\ phase = "start"
    /\ \E e \in Exprs : expr' = e
    /\ phase' = "building"
    /\ gi' = 1 /\ ci' = 1
    /\ UNCHANGED <<orderVars, css, cur, built, cand, result>>

\* One iteration of NewConstraints's inner loop, on clause k of group g,
\* with the groups done so far and the group in progress.
buildStep(groups, g, k, done, group) ==
    Let(LAMBDA r :
       IF r.err
       THEN [phase |-> "rejected", gi |-> g, ci |-> k, css |-> done, cur |-> group,
             built |-> [err |-> TRUE, cs |-> <<>>]]
       ELSE IF k < Len(groups[g])
       THEN [phase |-> "building", gi |-> g, ci |-> k + 1, css |-> done,
             cur |-> Append(group, r.c), built |-> NoBuilt]
       ELSE IF g < Len(groups)
       THEN [phase |-> "building", gi |-> g + 1, ci |-> 1,
             css |-> Append(done, Append(group, r.c)), cur |-> <<>>, built |-> NoBuilt]
       ELSE [phase |-> "built", gi |-> g, ci |-> k,
             css |-> Append(done, Append(group, r.c)), cur |-> <<>>,
             built |-> [err |-> FALSE, cs |-> Append(done, Append(group, r.c))]],
       newConstraint(groups[g][k]))

BuildClause ==
    /\ phase = "building"
    /\ \E n \in {buildStep(Clauses(expr), gi, ci, css, cur)} :
          /\ phase' = n.phase /\ gi' = n.gi /\ ci' = n.ci
          /\ css' = n.css /\ cur' = n.cur /\ built' = n.built
    /\ UNCHANGED <<orderVars, expr, cand, result>>

\* Check is called on the constraints NewConstraints returned without error.
StartCheck ==
    /\ phase = "built"
    /\ \E t \in CandTexts : \E p \in {Parse(t)} : ~p.err /\ cand' = p.v
    /\ phase' = "checking"
    /\ gi' = 1 /\ ci' = 1
    /\ UNCHANGED <<orderVars, expr, css, cur, built, result>>

checkStepFirstGroupOnly(cs, v, g, k) ==
    Let(LAMBDA r :
       IF r = "panic" THEN [phase |-> "done", gi |-> g, ci |-> k, result |-> "panic"]
       ELSE IF r = "false"
       THEN [phase |-> "done", gi |-> g, ci |-> k, result |-> "false"]
       ELSE IF k < Len(cs[g])
            THEN [phase |-> "checking", gi |-> g, ci |-> k + 1, result |-> "none"]
            ELSE [phase |-> "done", gi |-> g, ci |-> k, result |-> "true"],
       check(cs[g][k], v))

\* One clause evaluation of Check / andCheck, on clause k of group g.
checkStep(cs, v, g, k) ==
    Let(LAMBDA r :
       IF r = "panic" THEN [phase |-> "done", gi |-> g, ci |-> k, result |-> "panic"]
       ELSE IF r = "false"
       THEN IF g < Len(cs)
            THEN [phase |-> "checking", gi |-> g + 1, ci |-> 1, result |-> "none"]
            ELSE [phase |-> "done", gi |-> g, ci |-> k, result |-> "false"]
       ELSE IF k < Len(cs[g])
            THEN [phase |-> "checking", gi |-> g, ci |-> k + 1, result |-> "none"]
            ELSE [phase |-> "done", gi |-> g, ci |-> k, result |-> "true"],
       check(cs[g][k], v))

CheckClause ==
    /\ phase = "checking"
    /\ \E n \in {checkStep(built.cs, cand, gi, ci)} :
          phase' = n.phase /\ gi' = n.gi /\ ci' = n.ci /\ result' = n.result
    /\ UNCHANGED <<orderVars, expr, css, cur, built, cand>>

CheckNext == StartNewConstraints \/ BuildClause \/ StartCheck \/ CheckClause

Spec == CheckInit /\ [][CheckNext]_vars

-----------------------------------------------------------------------------
(* Properties of the constraint scenario *)

\* The groups of the expression; whether the constraint newConstraint makes
\* of a clause text matches a version; the OR of ANDs over the clauses of
\* an expression; whether newConstraint accepts every clause of it.
Groups == Clauses(expr)
ClauseMatches(clause, v) == check(newConstraint(clause).c, v) = "true"
OrOfAnds(e, v) ==
    B(\E g \in DOMAIN Clauses(e) :
          \A k \in DOMAIN Clauses(e)[g] : ClauseMatches(Clauses(e)[g][k], v))
Accepted(e) ==
    \A g \in DOMAIN Clauses(e) :
        \A k \in DOMAIN Clauses(e)[g] : ~newConstraint(Clauses(e)[g][k]).err

\* C4: Check(v) is an OR of ANDs.  When Check has returned, its result is
\* true iff some '||'-separated group of the expression has every one of its
\* ','-separated clauses matching the candidate, and false otherwise.
C4_OrOfAnds ==
    phase = "done" => result = OrOfAnds(expr, cand)

\* Check returned true on the strength of a later group of two or more
\* clauses, after an earlier group failed.
C4_Witness ==
    /\ phase = "done" /\ result = "true"
    /\ gi >= 2 /\ Len(Groups[gi]) >= 2
    /\ \E k \in DOMAIN Groups[1] : ~ClauseMatches(Groups[1][k], cand)

\* The expression is one clause; its operator and version text.
SingleClause == Len(Groups) = 1 /\ Len(Groups[1]) = 1
TheClause == newConstraint(Groups[1][1]).c

\* The leading numeric tokens of a token sequence, and a token sequence
\* with its leading numeric portion right-padded with "0" to n tokens.
RECURSIVE LeadingNumeric(_)
LeadingNumeric(toks) ==
    IF Len(toks) = 0 \/ ~isDigist(toks[1]) THEN <<>>
    ELSE <<toks[1]>> \o LeadingNumeric(Tail(toks))

PaddedTo(toks, n) ==
    LET m == Len(LeadingNumeric(toks))
    IN SubSeq(toks, 1, m)
         \o [i \in 1..(IF n > m THEN n - m ELSE 0) |-> <<"0">>]
         \o SubSeq(toks, m + 1, Len(toks))

\* The wildcard match as the specification words it: the tokens of P against
\* the tokens of the candidate's public canonical form truncated to P's
\* token count, the shorter leading numeric portion padded, each side
\* keeping its own other tokens.
WildcardMatch(P, v) ==
    LET tp == versionSplit(P)
        tv == versionSplit(String(Parse(Public(v)).v))
        tc == SubSeq(tv, 1, IF Len(tv) > Len(tp) THEN Len(tp) ELSE Len(tv))
        n == IF Len(LeadingNumeric(tp)) > Len(LeadingNumeric(tc))
             THEN Len(LeadingNumeric(tp)) ELSE Len(LeadingNumeric(tc))
    IN PaddedTo(tp, n) = PaddedTo(tc, n)

\* C5: a wildcard equality clause ==P.* matches a candidate iff the token
\* sequence of P equals the token sequence of the candidate's public
\* canonical form truncated to P's token count, after right-padding the
\* shorter leading numeric portion with "0", each side keeping its own
\* non-numeric tokens.  The code does not satisfy this statement.
C5_WildcardEquality ==
    (/\ phase = "done" /\ SingleClause
     /\ TheClause.operator = "==" /\ HasWildcardSuffix(TheClause.version))
    => result = B(WildcardMatch(TrimWildcardSuffix(TheClause.version), cand))

\* A version text in canonical form made of a release of two or more
\* components and an optional post and/or dev suffix.
CanonicalReleasePostDev(V) ==
    LET p == Parse(V)
    IN /\ ~p.err /\ String(p.v) = V
       /\ p.v.epoch = 0 /\ isNull(p.v.pre) /\ p.v.local = <<>>
       /\ Len(p.v.release) >= 2

\* The expression >=V,==r1.....r(n-1).* for the version text V.
GreaterEqualAndPrefix(V) ==
    LET r == Parse(V).v.release
    IN <<">=">> \o V \o <<",", "==">>
         \o ReleaseText(SubSeq(r, 1, Len(r) - 1)) \o <<".", "*">>

\* C6: for a spec version V in canonical form with release r1..rn, n >= 2,
\* and an optional post and/or dev suffix, Check of the constraints "~=V"
\* returns what Check of the constraints ">=V,==r1.....r(n-1).*" returns,
\* for every candidate.
C6_CompatibleEquivalence ==
    (/\ phase = "done" /\ SingleClause
     /\ TheClause.operator = "~=" /\ CanonicalReleasePostDev(TheClause.version))
    => /\ Accepted(GreaterEqualAndPrefix(TheClause.version))
       /\ result = OrOfAnds(GreaterEqualAndPrefix(TheClause.version), cand)

\* ~=V with a post-release V has matched a candidate.
C6_Witness ==
    /\ phase = "done" /\ SingleClause /\ TheClause.operator = "~="
    /\ CanonicalReleasePostDev(TheClause.version)
    /\ ~isNull(Parse(TheClause.version).v.post)
    /\ result = "true"

\* Two versions have the same base version: the same epoch and the same
\* release up to trailing zeros.
EqualBase(v, w) ==
    v.epoch = w.epoch /\ TrimZeros(v.release) = TrimZeros(w.release)

\* S: the version of the one clause of the expression.
SpecVersion == Parse(TheClause.version).v

\* C7: the clause <S matches a candidate iff the candidate is strictly less
\* than S and it is not the case that S is no pre-release while the
\* candidate is a pre-release (pre or dev segment present) with S's base
\* version.
C7_LessThanExclusion ==
    (phase = "done" /\ SingleClause /\ TheClause.operator = "<")
    => result = B(/\ LessThan(cand, SpecVersion)
                  /\ ~(/\ isNull(SpecVersion.pre) /\ isNull(SpecVersion.dev)
                       /\ (~isNull(cand.pre) \/ ~isNull(cand.dev))
                       /\ EqualBase(cand, SpecVersion)))

\* <S has rejected a pre-release of S's base version that is below S.
C7_Witness ==
    /\ phase = "done" /\ SingleClause /\ TheClause.operator = "<"
    /\ LessThan(cand, SpecVersion)
    /\ isNull(SpecVersion.pre) /\ isNull(SpecVersion.dev)
    /\ ~isNull(cand.dev) /\ EqualBase(cand, SpecVersion)
    /\ cand.release # SpecVersion.release
    /\ result = "false"

\* C8: the clause >S matches a candidate iff the candidate's public version
\* is strictly greater than S, the candidate is not a post-release with S's
\* base version while S is no post-release, and the candidate does not
\* carry a local segment while having S's base version.
C8_GreaterThanExclusion ==
    (phase = "done" /\ SingleClause /\ TheClause.operator = ">")
    => result = B(/\ GreaterThan(Parse(Public(cand)).v, SpecVersion)
                  /\ ~(/\ ~isNull(cand.post) /\ isNull(SpecVersion.post)
                       /\ EqualBase(cand, SpecVersion))
                  /\ ~(cand.local # <<>> /\ EqualBase(cand, SpecVersion)))

\* >S has rejected a candidate that is S with a local segment, which
\* compares greater than S.
C8_Witness ==
    /\ phase = "done" /\ SingleClause /\ TheClause.operator = ">"
    /\ cand.local # <<>> /\ isNull(cand.post) /\ GreaterThan(cand, SpecVersion)
    /\ Equal(Parse(Public(cand)).v, SpecVersion)
    /\ result = "false"

\* The operator validation table, for an operator and a version text.
TableRejects(op, ver) ==
    LET wild == HasWildcardSuffix(ver)
        p == Parse(IF wild THEN SubSeq(ver, 1, Len(ver) - 2) ELSE ver)
    IN CASE op = "===" -> FALSE
         [] op \in {"==", "!="} ->
              p.err \/ (wild /\ (~isNull(p.v.dev) \/ p.v.local # <<>>))
         [] op = "~=" ->
              p.err \/ wild \/ p.v.local # <<>> \/ Len(p.v.release) < 2
         [] op \in {"<", ">", "<=", ">="} ->
              p.err \/ wild \/ p.v.local # <<>>

\* The readings of a clause text as an operator and a version text with
\* optional blanks around them.
Blanks == {<<>>, <<" ">>}
Readings(clause) ==
    {r \in [op : Operators, ver : PlainSpecTexts \cup WildSpecTexts] :
        \E x \in Blanks, y \in Blanks, z \in Blanks :
            clause = x \o <<r.op>> \o y \o r.ver \o z}

\* A clause text that is no operator followed by a version text, or that
\* the table rejects.
ClauseRejected(clause) ==
    \A r \in Readings(clause) : TableRejects(r.op, r.ver)

\* C9: NewConstraints returns an error iff some clause of the expression
\* violates the operator validation table; with the error it returns an
\* empty Constraints; without it, Constraints holding every clause of every
\* group with its operator and version text.
C9_ValidationTable ==
    phase \in {"built", "rejected", "checking", "done"} =>
        /\ built.err <=> \E g \in DOMAIN Groups :
                             \E k \in DOMAIN Groups[g] : ClauseRejected(Groups[g][k])
        /\ built.err => built.cs = <<>>
        /\ ~built.err =>
              /\ DOMAIN built.cs = DOMAIN Groups
              /\ \A g \in DOMAIN Groups :
                    /\ DOMAIN built.cs[g] = DOMAIN Groups[g]
                    /\ \A k \in DOMAIN Groups[g] :
                          [op |-> built.cs[g][k].operator,
                           ver |-> built.cs[g][k].version] \in Readings(Groups[g][k])

\* NewConstraints has rejected an expression for a clause of a later group
\* that has an operator and a version text, after it had built a group.
C9_Witness ==
    /\ phase = "rejected" /\ built.err /\ built.cs = <<>>
    /\ gi >= 2 /\ css # <<>>
    /\ Readings(Groups[gi][ci]) # {}

\* C10: Check of constraints that NewConstraints returned without error, on
\* a version that Parse returned without error, never panics, and returns
\* a boolean.
C10_NoPanic ==
    /\ result # "panic"
    /\ phase = "done" => result \in {"true", "false"}

\* Check has returned after an evaluation that parsed the clause's version
\* text, the candidate's public rendering (the ~= clause) and the base
\* version renderings (the > clause on a candidate with a local segment).
C10_Witness ==
    /\ phase = "done" /\ result = "false"
    /\ Len(Groups) >= 2 /\ \A g \in DOMAIN Groups : Len(Groups[g]) = 1
    /\ \E g \in DOMAIN Groups : \E k \in DOMAIN Groups[g] :
          newConstraint(Groups[g][k]).c.operator = "~="
    /\ \E g \in DOMAIN Groups : \E k \in DOMAIN Groups[g] :
          /\ newConstraint(Groups[g][k]).c.operator = ">"
          /\ cand.local # <<>>

\* The version text of a clause's version, without its trailing .* if any.
Denoted(T) == IF HasWildcardSuffix(T) THEN SubSeq(T, 1, Len(T) - 2) ELSE T

\* Two version texts, both or neither followed by .*, that parse to
\* Versions with the same canonical String().
SameVersion(T1, T2) ==
    /\ HasWildcardSuffix(T1) = HasWildcardSuffix(T2)
    /\ ~Parse(Denoted(T1)).err /\ ~Parse(Denoted(T2)).err
    /\ String(Parse(Denoted(T1)).v) = String(Parse(Denoted(T2)).v)

\* C11: clause evaluation depends only on the version the clause's text
\* denotes.  For an operator other than === and two version texts accepted
\* by validation that parse to Versions with the same canonical String(),
\* the two clauses give the same result on every candidate.  The code does
\* not satisfy this statement.
C11_SpellingIndependence ==
    (phase = "done" /\ SingleClause /\ TheClause.operator # "===")
    => \A T2 \in PlainSpecTexts \cup WildSpecTexts :
           (/\ SameVersion(TheClause.version, T2)
            /\ Accepted(<<TheClause.operator>> \o T2))
           => result = OrOfAnds(<<TheClause.operator>> \o T2, cand)

====
